---- MODULE Spec2Model ----
(***************************************************************************)
(* Model of scripts/format_files.py: discovery of the C/C++ sources under  *)
(* the clang-enforced folders (find_source_files) and the format-and-      *)
(* rewrite loop (run_clang), driven by main.                               *)
(*                                                                         *)
(* A string (a path, a file name, a console line) is a sequence of         *)
(* one-character strings, so that joining, suffix tests, slicing and the   *)
(* ordering used by sorted() are computed character by character.  A file  *)
(* content is an opaque text: the script only compares contents for        *)
(* equality.                                                               *)
(***************************************************************************)
EXTENDS Integers, Sequences, FiniteSets, TLC

VARIABLES
    fs,            \* the files on disk: path -> content, or NoFile
    dirs,          \* the directories that exist
    unreadable,    \* the files open(filename, 'r') fails on
    fmt,           \* what clang-format prints for a content when it succeeds
    clang_dirs,    \* the argument of find_source_files
    source_files,  \* the list find_source_files returned
    pc,            \* the position of the program
    i,             \* 1-based position of run_clang's loop in clang_files
    indata,        \* run_clang's local indata
    outdata,       \* run_clang's local outdata
    exit_ok,       \* whether the last clang-format invocation succeeded
    console,       \* the lines printed so far, over all runs
    run,           \* how many times main has been started
    log,           \* the file operations of the current run, in order
    con0,          \* Len(console) when the current run started
    fsRun,         \* fs when the current run started
    fs0,           \* fs before the first run
    anyFail        \* whether some clang-format invocation has failed so far

vars == <<fs, dirs, unreadable, fmt, clang_dirs, source_files, pc, i, indata,
          outdata, exit_ok, console, run, log, con0, fsRun, fs0, anyFail>>

(***************************************************************************)
(* Bounds of the model.                                                    *)
(***************************************************************************)
MaxFiles == 2        \* files present in the tree
MaxUnreadable == 1   \* files that cannot be opened for reading
MaxRuns == 2         \* successive runs of main
MaxRoots == 2        \* length of the root list handed to find_source_files

(***************************************************************************)
(* Strings.                                                                *)
(***************************************************************************)
S_include == <<"i", "n", "c", "l", "u", "d", "e">>
S_src == <<"s", "r", "c">>
S_test == <<"t", "e", "s", "t">>
S_doc == <<"d", "o", "c">>
S_d == <<"d">>

\* ord(): the code point of a character that occurs in a path
Ord(c) ==
    CASE c = "." -> 46 [] c = "/" -> 47
      [] c = "E" -> 69 [] c = "H" -> 72 [] c = "P" -> 80
      [] c = "a" -> 97 [] c = "b" -> 98 [] c = "c" -> 99 [] c = "d" -> 100
      [] c = "e" -> 101 [] c = "h" -> 104 [] c = "i" -> 105 [] c = "l" -> 108
      [] c = "n" -> 110 [] c = "o" -> 111 [] c = "p" -> 112 [] c = "r" -> 114
      [] c = "s" -> 115 [] c = "t" -> 116 [] c = "u" -> 117 [] c = "x" -> 120
      [] c = "y" -> 121 [] c = "z" -> 122

Min(a, b) == IF a < b THEN a ELSE b

\* a < b on Python strings: lexicographic by code point, a proper prefix first
StrLess(a, b) ==
    \E k \in 1..(Min(Len(a), Len(b)) + 1) :
        /\ \A j \in 1..(k - 1) : a[j] = b[j]
        /\ \/ k > Len(a) /\ k <= Len(b)
           \/ k <= Len(a) /\ k <= Len(b) /\ Ord(a[k]) < Ord(b[k])

StrLeq(a, b) == a = b \/ StrLess(a, b)

\* s.endswith(suffix) for one suffix
EndsWith(s, suffix) ==
    /\ Len(s) >= Len(suffix)
    /\ SubSeq(s, Len(s) - Len(suffix) + 1, Len(s)) = suffix

\* s[n:]
SliceFrom(s, n) == SubSeq(s, n + 1, Len(s))

\* os.path.join(a, b) of posixpath, for two components
os_path_join(a, b) ==
    IF Len(b) > 0 /\ b[1] = "/" THEN b
    ELSE IF a = <<>> \/ a[Len(a)] = "/" THEN a \o b
    ELSE a \o <<"/">> \o b

(***************************************************************************)
(* Program constants.                                                      *)
(***************************************************************************)
SOURCE_FOLDERS == <<S_include, S_src, S_test>>

SUFFIXES_with_py == << <<".", "c", "c">>, <<".", "c", "p", "p">>, <<".", "h">>,
                       <<".", "h", "h">>, <<".", "h", "p", "p">>,
                       <<".", "p", "y">> >>

SUFFIXES == << <<".", "c", "c">>, <<".", "c", "p", "p">>, <<".", "h">>,
               <<".", "h", "h">>, <<".", "h", "p", "p">> >>

\* filename.endswith(SUFFIXES): some suffix of the tuple matches
endswith(filename, suffixes) ==
    \E k \in 1..Len(suffixes) : EndsWith(filename, suffixes[k])

(***************************************************************************)
(* The trees considered: at most MaxFiles of these files are present.      *)
(***************************************************************************)
CandDirs ==
    {S_include, S_src, os_path_join(S_src, S_d), S_test, S_doc}

\* the files a run of main is checked on
MainFiles ==
    { os_path_join(S_include, <<"b", ".", "h">>),
      os_path_join(S_include, <<"y", ".", "h", "h">>),
      os_path_join(S_src, <<"a", ".", "c", "p", "p">>),
      os_path_join(S_src, <<"c", ".", "p", "y">>),
      os_path_join(os_path_join(S_src, S_d), <<"x", ".", "c", "c">>),
      os_path_join(S_test, <<"t", ".", "h", "p", "p">>),
      os_path_join(S_doc, <<"z", ".", "h">>) }

\* the files find_source_files alone is checked on
CandFiles ==
    MainFiles \cup {os_path_join(S_src, <<"E", ".", "H", "P", "P">>)}

NoFile == "<absent>"
Contents == {"", "u", "f"}

\* clang-format's output on success, as a function of the file's content:
\* Canon prints the canonical text, Swap is a formatter that is not idempotent
Canon == [c \in Contents |-> IF c = "" THEN "" ELSE "f"]
Swap == [c \in Contents |-> IF c = "" THEN "" ELSE IF c = "u" THEN "f" ELSE "u"]
Formatters == {Canon, Swap}

IsIdempotent(f) == \A c \in Contents : f[f[c]] = f[c]

Present(files) == {p \in DOMAIN files : files[p] # NoFile}

IsPrefixDir(d, p) ==
    /\ Len(p) > Len(d) + 1
    /\ SubSeq(p, 1, Len(d)) = d
    /\ p[Len(d) + 1] = "/"

\* the directories a set of files needs
Ancestors(paths) == {d \in CandDirs : \E p \in paths : IsPrefixDir(d, p)}

(***************************************************************************)
(* File discovery.                                                         *)
(***************************************************************************)
\* the names of the entries of directory d among the paths
ChildNames(d, paths) ==
    { SliceFrom(p, Len(d) + 1) :
        p \in {q \in paths : /\ IsPrefixDir(d, q)
                             /\ \A j \in (Len(d) + 2)..Len(q) : q[j] # "/"} }

\* the least string of a non-empty set
MinStr(S) == CHOOSE x \in S : \A y \in S : StrLeq(x, y)

RECURSIVE Ascending(_)
Ascending(S) ==
    IF S = {} THEN <<>> ELSE <<MinStr(S)>> \o Ascending(S \ {MinStr(S)})

Reverse(s) == [k \in 1..Len(s) |-> s[Len(s) + 1 - k]]

\* The order in which a directory lists its entries is arbitrary; two orders
\* stand for it.
ListingOrders == {"asc", "desc"}

Listing(names, order) ==
    IF order = "asc" THEN Ascending(names) ELSE Reverse(Ascending(names))

\* os.walk(top), top-down: one (root, dirs, files) triple per directory below
\* top; a top that cannot be listed yields nothing
RECURSIVE os_walk(_, _), walk_subdirs(_, _, _)
os_walk(top, order) ==
    IF top \notin dirs THEN <<>>
    ELSE LET subdirs == Listing(ChildNames(top, dirs), order)
             files == Listing(ChildNames(top, Present(fs)), order)
         IN  <<[root |-> top, dirs |-> subdirs, files |-> files]>>
             \o walk_subdirs(top, subdirs, order)

walk_subdirs(top, subdirs, order) ==
    IF subdirs = <<>> THEN <<>>
    ELSE os_walk(os_path_join(top, Head(subdirs)), order)
         \o walk_subdirs(top, Tail(subdirs), order)

\* os.walk is called without onerror: an error listing top is not raised
walk_raises_strict(top) == top \notin dirs

walk_raises(top) == FALSE

\* [os.path.join(root, filename) for filename in files
\*      if filename.endswith(SUFFIXES)]
RECURSIVE matching(_, _)
matching(root, files) ==
    IF files = <<>> THEN <<>>
    ELSE (IF endswith(Head(files), SUFFIXES)
          THEN <<os_path_join(root, Head(files))>> ELSE <<>>)
         \o matching(root, Tail(files))

\* the extend() calls of one os.walk
RECURSIVE extend_all(_)
extend_all(triples) ==
    IF triples = <<>> THEN <<>>
    ELSE matching(Head(triples).root, Head(triples).files)
         \o extend_all(Tail(triples))

\* sorted(): stable insertion into an ascending list
RECURSIVE insert_sorted(_, _)
insert_sorted(x, s) ==
    IF s = <<>> THEN <<x>>
    ELSE IF StrLess(x, Head(s)) THEN <<x>> \o s
    ELSE <<Head(s)>> \o insert_sorted(x, Tail(s))

RECURSIVE sort_from(_, _)
sort_from(s, acc) ==
    IF s = <<>> THEN acc ELSE sort_from(Tail(s), insert_sorted(Head(s), acc))

unsorted(s) == s

sorted(s) == sort_from(s, <<>>)

\* the loop over clang_dirs
RECURSIVE collect(_, _)
collect(roots, order) ==
    IF roots = <<>> THEN <<>>
    ELSE extend_all(os_walk(Head(roots), order)) \o collect(Tail(roots), order)

find_source_files(roots, order) == sorted(collect(roots, order))

(***************************************************************************)
(* The format-and-rewrite loop.                                            *)
(***************************************************************************)
ESC == "ESC"

NoticeHead ==
    <<ESC, "[", "1", "m", ESC, "[", "3", "3", "m",
      "R", "e", "f", "o", "r", "m", "a", "t", "t", "i", "n", "g", " ">>

NoticeTail == <<ESC, "[", "0", "m">>

Notice_full(filename) == NoticeHead \o filename \o NoticeTail

\* '\033[1m\033[33mReformatting {}\033[0m'.format(filename[2:])
Notice(filename) == NoticeHead \o SliceFrom(filename, 2) \o NoticeTail

\* indata != outdata
always_differs(a, b) == TRUE

differs(a, b) == a # b

\* what the formatter's standard output holds when the invocation fails
FailOutput == ""

CurFile == source_files[i]

\* the file whose iteration just ended, when there is one
Finished == pc \in {"read", "done", "ioerror"} /\ i > 1

PrevFile == source_files[i - 1]

NextFile(k) == IF k + 1 > Len(source_files) THEN "done" ELSE "read"

(***************************************************************************)
(* Initial states.                                                         *)
(***************************************************************************)
Trees(candidates) ==
    /\ \E present \in {P \in SUBSET candidates : Cardinality(P) <= MaxFiles} :
         /\ \E cont \in [present -> Contents] :
              fs = [p \in CandFiles |-> IF p \in present THEN cont[p] ELSE NoFile]
         /\ dirs = Ancestors(present)
    /\ fs0 = fs
    /\ fsRun = fs

InitLocals ==
    /\ source_files = <<>>
    /\ i = 1
    /\ indata = ""
    /\ outdata = ""
    /\ exit_ok = TRUE
    /\ console = <<>>
    /\ run = 0
    /\ log = <<>>
    /\ con0 = 0
    /\ anyFail = FALSE

Init ==
    /\ Trees(MainFiles)
    /\ unreadable \in {U \in SUBSET Present(fs) : Cardinality(U) <= MaxUnreadable}
    /\ fmt \in Formatters
    /\ clang_dirs = SOURCE_FOLDERS
    /\ pc = "idle"
    /\ InitLocals

(***************************************************************************)
(* Actions.                                                                *)
(***************************************************************************)
\* main(): find_source_files(SOURCE_FOLDERS), then run_clang enters its loop
Main ==
    /\ \/ pc = "idle"
       \/ pc \in {"done", "oserror", "ioerror"}
    /\ run < MaxRuns
    /\ run' = run + 1
    /\ log' = <<>>
    /\ con0' = Len(console)
    /\ fsRun' = fs
    /\ i' = 1
    /\ \E order \in ListingOrders :
         IF \E k \in 1..Len(clang_dirs) : walk_raises(clang_dirs[k])
         THEN /\ pc' = "oserror"
              /\ UNCHANGED source_files
         ELSE /\ source_files' = find_source_files(clang_dirs, order)
              /\ pc' = IF source_files' = <<>> THEN "done" ELSE "read"
    /\ indata' = ""
    /\ outdata' = ""
    /\ exit_ok' = TRUE
    /\ UNCHANGED <<fs, dirs, unreadable, fmt, clang_dirs, console, fs0, anyFail>>

\* with open(filename, 'r') as infile: indata = infile.read()
Read ==
    /\ pc = "read"
    /\ IF CurFile \in unreadable \/ fs[CurFile] = NoFile
       THEN /\ pc' = "ioerror"
            /\ UNCHANGED <<indata, log>>
       ELSE /\ indata' = fs[CurFile]
            /\ log' = Append(log, <<"read", CurFile>>)
            /\ pc' = "format"
    /\ UNCHANGED <<fs, dirs, unreadable, fmt, clang_dirs, source_files, i,
                   outdata, exit_ok, console, run, con0, fsRun, fs0, anyFail>>

\* outdata = os.popen('clang-format-3.9 -style=file ' + filename).read()
Format ==
    /\ pc = "format"
    /\ \E ok \in BOOLEAN :
         /\ exit_ok' = ok
         /\ outdata' = IF ok THEN fmt[fs[CurFile]] ELSE FailOutput
         /\ anyFail' = (anyFail \/ ~ok)
    /\ log' = Append(log, <<"format", CurFile>>)
    /\ pc' = "compare"
    /\ UNCHANGED <<fs, dirs, unreadable, fmt, clang_dirs, source_files, i,
                   indata, console, run, con0, fsRun, fs0>>

Compare_checks_exit ==
    /\ pc = "compare"
    /\ IF exit_ok /\ differs(indata, outdata)
       THEN /\ console' = Append(console, Notice(CurFile))
            /\ pc' = "write"
            /\ UNCHANGED i
       ELSE /\ i' = i + 1
            /\ pc' = NextFile(i)
            /\ UNCHANGED console
    /\ log' = Append(log, <<"compare", CurFile>>)
    /\ UNCHANGED <<fs, dirs, unreadable, fmt, clang_dirs, source_files,
                   indata, outdata, exit_ok, run, con0, fsRun, fs0, anyFail>>

\* if indata != outdata: print(...)
Compare ==
    /\ pc = "compare"
    /\ IF differs(indata, outdata)
       THEN /\ console' = Append(console, Notice(CurFile))
            /\ pc' = "write"
            /\ UNCHANGED i
       ELSE /\ i' = i + 1
            /\ pc' = NextFile(i)
            /\ UNCHANGED console
    /\ log' = Append(log, <<"compare", CurFile>>)
    /\ UNCHANGED <<fs, dirs, unreadable, fmt, clang_dirs, source_files,
                   indata, outdata, exit_ok, run, con0, fsRun, fs0, anyFail>>

Write_truncates ==
    /\ pc = "write"
    /\ fs' = [fs EXCEPT ![CurFile] = ""]
    /\ log' = Append(log, <<"write", CurFile>>)
    /\ i' = i + 1
    /\ pc' = NextFile(i)
    /\ UNCHANGED <<dirs, unreadable, fmt, clang_dirs, source_files, indata,
                   outdata, exit_ok, console, run, con0, fsRun, fs0, anyFail>>

Write_indata ==
    /\ pc = "write"
    /\ fs' = [fs EXCEPT ![CurFile] = indata]
    /\ log' = Append(log, <<"write", CurFile>>)
    /\ i' = i + 1
    /\ pc' = NextFile(i)
    /\ UNCHANGED <<dirs, unreadable, fmt, clang_dirs, source_files, indata,
                   outdata, exit_ok, console, run, con0, fsRun, fs0, anyFail>>

\* with open(filename, 'w') as outfile: outfile.write(outdata)
Write ==
    /\ pc = "write"
    /\ fs' = [fs EXCEPT ![CurFile] = outdata]
    /\ log' = Append(log, <<"write", CurFile>>)
    /\ i' = i + 1
    /\ pc' = NextFile(i)
    /\ UNCHANGED <<dirs, unreadable, fmt, clang_dirs, source_files, indata,
                   outdata, exit_ok, console, run, con0, fsRun, fs0, anyFail>>

Next == Main \/ Read \/ Format \/ Compare \/ Write

Spec == Init /\ [][Next]_vars

(***************************************************************************)
(* find_source_files on its own, over every root list of at most MaxRoots  *)
(* of the candidate directories.                                           *)
(***************************************************************************)
RECURSIVE SeqsUpTo(_, _)
SeqsUpTo(S, n) ==
    IF n = 0 THEN {<<>>}
    ELSE SeqsUpTo(S, n - 1)
         \cup {Append(s, x) : s \in {t \in SeqsUpTo(S, n - 1) : Len(t) = n - 1},
                              x \in S}

InitFind ==
    /\ Trees(CandFiles)
    /\ unreadable = {}
    /\ fmt = Canon
    /\ clang_dirs \in SeqsUpTo(CandDirs, MaxRoots)
    /\ pc = "call"
    /\ InitLocals

FindCall ==
    /\ pc = "call"
    /\ \E order \in ListingOrders :
         source_files' = find_source_files(clang_dirs, order)
    /\ pc' = "returned"
    /\ UNCHANGED <<fs, dirs, unreadable, fmt, clang_dirs, i, indata, outdata,
                   exit_ok, console, run, log, con0, fsRun, fs0, anyFail>>

NextFind == FindCall

SpecFind == InitFind /\ [][NextFind]_vars

(***************************************************************************)
(* Vocabulary of the properties, stated apart from the operators above.    *)
(***************************************************************************)
Range(s) == {s[k] : k \in DOMAIN s}

IsSorted(s) == \A k \in 1..(Len(s) - 1) : StrLeq(s[k], s[k + 1])

NoDuplicates(s) == \A a, b \in DOMAIN s : a # b => s[a] # s[b]

RecognizedSuffixes ==
    { <<".", "c", "c">>, <<".", "c", "p", "p">>, <<".", "h">>,
      <<".", "h", "h">>, <<".", "h", "p", "p">> }

\* the part of a path after its last separator
Basename(p) ==
    LET seps == {k \in DOMAIN p : p[k] = "/"}
        last == IF seps = {} THEN 0
                ELSE CHOOSE k \in seps : \A j \in seps : j <= k
    IN  SliceFrom(p, last)

HasRecognizedSuffix(p) ==
    \E k \in 0..Len(Basename(p)) : SliceFrom(Basename(p), k) \in RecognizedSuffixes

\* the candidate files whose name carries a recognized suffix
SuffixedFiles == {p \in CandFiles : HasRecognizedSuffix(p)}

\* the files on disk that lie below one of the roots and carry a suffix
MatchingUnder(roots) ==
    { p \in Present(fs) \cap SuffixedFiles :
        \E k \in DOMAIN roots : IsPrefixDir(roots[k], p) }

\* the candidate files main has no business with
OtherFiles ==
    { p \in CandFiles :
        \/ p \notin SuffixedFiles
        \/ ~\E k \in DOMAIN SOURCE_FOLDERS : IsPrefixDir(SOURCE_FOLDERS[k], p) }

\* no root is listed twice and no root lies inside another
RootsIndependent(roots) ==
    \A a, b \in DOMAIN roots :
        a # b => roots[a] # roots[b] /\ ~IsPrefixDir(roots[a], roots[b])

DropTwo(p) == [k \in 1..(Len(p) - 2) |-> p[k + 2]]

ExpectedNotice(p) ==
    <<"ESC", "[", "1", "m", "ESC", "[", "3", "3", "m">>
    \o <<"R", "e", "f", "o", "r", "m", "a", "t", "t", "i", "n", "g", " ">>
    \o DropTwo(p) \o <<"ESC", "[", "0", "m">>

\* the lines the current run has printed
RunConsole == SubSeq(console, con0 + 1, Len(console))

Occurrences(s, x) == Cardinality({k \in DOMAIN s : s[k] = x})

Src_a_cpp == <<"s", "r", "c", "/", "a", ".", "c", "p", "p">>

OpRank(op) ==
    CASE op = "read" -> 1 [] op = "format" -> 2 [] op = "compare" -> 3
      [] op = "write" -> 4

IndexOf(p) == CHOOSE k \in DOMAIN source_files : source_files[k] = p

InLoop == pc \in {"read", "format", "compare", "write"}

Stopped == pc \in {"done", "ioerror", "oserror"}

(***************************************************************************)
(* C1                                                                      *)
(***************************************************************************)
\* C1 (as stated): for every tree and every list of roots, the list returned
\* by find_source_files is in non-decreasing order, has no duplicates, and
\* holds exactly the files below the roots whose name ends with a recognized
\* suffix.
C1_AnyRoots ==
    pc = "returned" =>
        /\ IsSorted(source_files)
        /\ NoDuplicates(source_files)
        /\ Range(source_files) = MatchingUnder(clang_dirs)

\* C1 (amended): the list is always in non-decreasing order and holds exactly
\* the matching files below the roots; it has no duplicates when no root is
\* listed twice and no root lies inside another.
C1_IndependentRoots ==
    pc = "returned" =>
        /\ IsSorted(source_files)
        /\ Range(source_files) = MatchingUnder(clang_dirs)
        /\ RootsIndependent(clang_dirs) => NoDuplicates(source_files)

C1_Witness ==
    /\ pc = "returned"
    /\ Len(clang_dirs) = 2
    /\ RootsIndependent(clang_dirs)
    /\ source_files # <<>>
    /\ Cardinality(Present(fs)) > Len(source_files)

(***************************************************************************)
(* C2                                                                      *)
(***************************************************************************)
\* C2: once run_clang has finished with a file whose captured output differed
\* from the content read, the file holds exactly the captured output and the
\* run has printed exactly one notice naming it.
C2_RewrittenHoldsOutput ==
    (Finished /\ indata # outdata) =>
        /\ fs[PrevFile] = outdata
        /\ Occurrences(RunConsole, ExpectedNotice(PrevFile)) = 1

C2_Witness ==
    /\ Finished
    /\ exit_ok
    /\ indata = "u"
    /\ outdata = "f"
    /\ fs[PrevFile] = "f"

(***************************************************************************)
(* C3                                                                      *)
(***************************************************************************)
\* C3: the comparison of a file whose captured output equals the content read
\* leaves every file and the console as they are, and no write follows.
C3_EqualIsSilent ==
    [][(pc = "compare" /\ indata = outdata) =>
           /\ fs' = fs
           /\ console' = console
           /\ pc' # "write"
           /\ \A k \in DOMAIN log' : log'[k] # <<"write", CurFile>>]_vars

C3_Witness ==
    /\ Finished
    /\ indata = outdata
    /\ indata = "f"
    /\ exit_ok
    /\ fs[PrevFile] = "f"
    /\ RunConsole = <<>>

(***************************************************************************)
(* C4                                                                      *)
(***************************************************************************)
\* C4: with an idempotent formatter and no failed invocation, the second run
\* of main changes no file and prints no notice.
C4_SecondRunIsQuiet ==
    (run = 2 /\ IsIdempotent(fmt) /\ ~anyFail) =>
        /\ fs = fsRun
        /\ RunConsole = <<>>

C4_Witness ==
    /\ run = 2
    /\ pc = "done"
    /\ IsIdempotent(fmt)
    /\ ~anyFail
    /\ fs # fs0
    /\ Len(console) = 2
    /\ Len(log) > 0

(***************************************************************************)
(* C5                                                                      *)
(***************************************************************************)
\* C5: a file without a recognized suffix, or outside the three roots, is
\* never in the discovered list, never the subject of a file operation, and
\* keeps its content.
C5_OthersUntouched ==
    \A p \in OtherFiles :
        /\ p \notin Range(source_files)
        /\ \A k \in DOMAIN log : log[k][2] # p
        /\ fs[p] = fs0[p]

C5_Witness ==
    /\ pc = "done"
    /\ \E p \in Present(fs) \ SuffixedFiles : fs[p] = "u"
    /\ \E k \in DOMAIN log : log[k][1] = "write"

(***************************************************************************)
(* C6                                                                      *)
(***************************************************************************)
\* C6: when a root directory does not exist, discovery raises no error and
\* returns exactly the sorted matching files of the roots that exist, and the
\* run goes on to process them.
C6_MissingRootIsEmpty ==
    (run >= 1 /\ \E k \in DOMAIN clang_dirs : clang_dirs[k] \notin dirs) =>
        /\ pc # "oserror"
        /\ IsSorted(source_files)
        /\ NoDuplicates(source_files)
        /\ Range(source_files) =
               { p \in MatchingUnder(clang_dirs) :
                   \E k \in DOMAIN clang_dirs : /\ clang_dirs[k] \in dirs
                                                /\ IsPrefixDir(clang_dirs[k], p) }
        /\ (source_files # <<>> /\ log = <<>>) => pc \in {"read", "ioerror"}

C6_Witness ==
    /\ run = 1
    /\ S_test \notin dirs
    /\ Len(source_files) = 2
    /\ pc = "done"
    /\ \E k \in DOMAIN log : log[k][1] = "write"

(***************************************************************************)
(* C7                                                                      *)
(***************************************************************************)
\* C7: the loop works on the complete sorted list; the file operations of a
\* run come file by file in the order of the list, read, format, compare and
\* write of one file before any operation of the next; the notices of a run
\* appear in sorted path order.
C7_Sequential ==
    /\ InLoop =>
        /\ IsSorted(source_files)
        /\ Range(source_files) = MatchingUnder(SOURCE_FOLDERS)
        /\ i \in DOMAIN source_files
    /\ \A k \in DOMAIN log : log[k][2] \in Range(source_files)
    /\ \A a \in 1..(Len(log) - 1) :
        /\ \/ /\ log[a][2] = log[a + 1][2]
              /\ OpRank(log[a + 1][1]) = OpRank(log[a][1]) + 1
           \/ /\ log[a + 1][1] = "read"
              /\ log[a][1] \in {"compare", "write"}
              /\ StrLess(log[a][2], log[a + 1][2])
        /\ IndexOf(log[a][2]) <= IndexOf(log[a + 1][2])
    /\ \A a \in 1..(Len(RunConsole) - 1) :
        \E p, q \in Range(source_files) :
            /\ RunConsole[a] = ExpectedNotice(p)
            /\ RunConsole[a + 1] = ExpectedNotice(q)
            /\ StrLess(p, q)

C7_Witness ==
    /\ pc = "done"
    /\ Len(RunConsole) = 2
    /\ Len(log) = 8

(***************************************************************************)
(* C8                                                                      *)
(***************************************************************************)
\* C8: the notice of a rewritten file names the discovered path without its
\* first two characters; for src/a.cpp the notice reads c/a.cpp.
C8_NoticeDropsTwoChars ==
    /\ \A k \in DOMAIN log :
        log[k][1] = "write" =>
            Occurrences(RunConsole, ExpectedNotice(log[k][2])) = 1
    /\ pc = "write" => console[Len(console)] = ExpectedNotice(CurFile)
    /\ (\E k \in DOMAIN log : log[k] = <<"write", Src_a_cpp>>) =>
        \E k \in DOMAIN RunConsole :
            RunConsole[k] =
                <<"ESC", "[", "1", "m", "ESC", "[", "3", "3", "m",
                  "R", "e", "f", "o", "r", "m", "a", "t", "t", "i", "n", "g", " ",
                  "c", "/", "a", ".", "c", "p", "p", "ESC", "[", "0", "m">>

C8_Witness ==
    /\ pc = "done"
    /\ \E k \in DOMAIN log : log[k] = <<"write", Src_a_cpp>>
    /\ Len(RunConsole) = 2

(***************************************************************************)
(* C9                                                                      *)
(***************************************************************************)
\* C9: a failed invocation with empty output on a non-empty file ends with
\* the file emptied and a notice printed; after a failed invocation the file
\* still holds what was read only if that equals the captured output.
C9_FailureOverwrites ==
    /\ (Finished /\ ~exit_ok /\ outdata = "" /\ indata # "") =>
        /\ fs[PrevFile] = ""
        /\ Occurrences(RunConsole, ExpectedNotice(PrevFile)) = 1
        /\ log[Len(log)] = <<"write", PrevFile>>
    /\ (Finished /\ ~exit_ok /\ fs[PrevFile] = indata) => indata = outdata

C9_Witness ==
    /\ Finished
    /\ ~exit_ok
    /\ indata = "f"
    /\ fmt[indata] = "f"
    /\ fs[PrevFile] = ""
    /\ Len(RunConsole) = 1

(***************************************************************************)
(* C10                                                                     *)
(***************************************************************************)
\* C10: when a discovered file cannot be opened for reading, the run skips it
\* and goes on: once the run has stopped, every readable file of the list has
\* been read.
C10_UnreadableIsSkipped ==
    (Stopped /\ run >= 1) =>
        \A k \in DOMAIN source_files :
            source_files[k] \notin unreadable =>
                \E j \in DOMAIN log : log[j] = <<"read", source_files[k]>>

====
